---- MODULE Spec2Model ----
(***************************************************************************)
(* Model of streamlit_app_supabase.py: the retrieval-augmented drafting    *)
(* pipeline of the BRIM customer-support tool.                             *)
(*                                                                         *)
(* One action is one run of main() (one page render): Streamlit reruns the *)
(* whole script on every widget event, with at most one button reported    *)
(* as clicked.  The database holds the four ledger tables and the corpus   *)
(* table brim_qa; st.session_state survives between renders.               *)
(*                                                                         *)
(* Texts are TLA+ strings.  The source's Japanese literals are written     *)
(* with ASCII stand-ins, named where they are defined.                     *)
(***************************************************************************)
EXTENDS Integers, Sequences, FiniteSets, TLC

VARIABLES
    db,             \* committed rows: inquiries, ai_responses, human_corrections, feedbacks, brim_qa
    products,       \* BRIMProductDatabase.products, in the file's key order
    session_state,  \* st.session_state: a function from the keys set so far
    session,        \* the SQLAlchemy session of the latest render: "none", "open" or "closed"
    req,            \* the inputs of the latest render: widget values and the outcome of each external call
    ui,             \* the message the latest render showed
    ret             \* the latest direct call of a function: its arguments, its value, the call before it

vars == <<db, products, session_state, session, req, ui, ret>>

-----------------------------------------------------------------------------
(* Bounds of the model *)

MaxLedgerRows == 5
MaxCorpus == 5
MaxProducts == 6

-----------------------------------------------------------------------------
(* Strings: Python's str operations used by the source *)

Lowers == "abcdefghijklmnopqrstuvwxyz"
Uppers == "ABCDEFGHIJKLMNOPQRSTUVWXYZ"

CharAt(s, i) == SubSeq(s, i, i)

LowerOf == [c \in {CharAt(Uppers, i) : i \in 1..26} |->
               CharAt(Lowers, CHOOSE i \in 1..26 : CharAt(Uppers, i) = c)]

UpperOf == [c \in {CharAt(Lowers, i) : i \in 1..26} |->
               CharAt(Uppers, CHOOSE i \in 1..26 : CharAt(Lowers, i) = c)]

\* c.lower() of one character: letters fold, everything else is itself
LowerChar(c) == IF c \in DOMAIN LowerOf THEN LowerOf[c] ELSE c

\* c.upper() of one character
UpperChar(c) == IF c \in DOMAIN UpperOf THEN UpperOf[c] ELSE c

RECURSIVE lower(_)
lower(s) == IF Len(s) = 0 THEN "" ELSE LowerChar(CharAt(s, 1)) \o lower(SubSeq(s, 2, Len(s)))

RECURSIVE upper(_)
upper(s) == IF Len(s) = 0 THEN "" ELSE UpperChar(CharAt(s, 1)) \o upper(SubSeq(s, 2, Len(s)))

\* Python's `k in s` on strings
Contains(s, k) == \E i \in 1..(Len(s) - Len(k) + 1) : SubSeq(s, i, i + Len(k) - 1) = k

\* s.split(): the maximal runs of non-blank characters, in order
RECURSIVE split(_)
split(s) ==
    IF Len(s) = 0 THEN <<>>
    ELSE IF CharAt(s, 1) = " " THEN split(SubSeq(s, 2, Len(s)))
    ELSE LET blanks == {i \in 1..Len(s) : CharAt(s, i) = " "}
             stop == IF blanks = {} THEN Len(s) + 1
                     ELSE CHOOSE i \in blanks : \A j \in blanks : i <= j
         IN  <<SubSeq(s, 1, stop - 1)>> \o split(SubSeq(s, stop, Len(s)))

-----------------------------------------------------------------------------
(* The embedding service and pgvector's cosine distance *)

\* Embeddings are unit vectors; the model writes them as integer vectors of
\* length EmbeddingScale, in two dimensions instead of 1536.
EmbeddingScale == 65

EmbeddingTable == << <<65, 0>>, <<63, 16>>, <<56, 33>>, <<16, 63>> >>

\* The vector the service returns for a text: a fixed function of the text
\* (the same text always embeds the same; different texts may collide).
text_embedding(text_input) == EmbeddingTable[(Len(text_input) % Len(EmbeddingTable)) + 1]

\* get_embedding: the vector, or None when the request raises
None == <<>>
get_embedding(text_input, emb_ok) == IF emb_ok THEN text_embedding(text_input) ELSE None

Dot(a, b) == a[1] * b[1] + a[2] * b[2]

Norm(a) == CHOOSE n \in 0..(2 * EmbeddingScale) : n * n = Dot(a, a)

\* embedding <=> cast(:emb AS vector): cosine distance, in hundred-thousandths
Unit == 100000
CosineDistance(a, b) == Unit - (Dot(a, b) * Unit) \div (Norm(a) * Norm(b))

\* round(x, 4) of a value given in hundred-thousandths, in ten-thousandths (half to even)
Round4(x) ==
    LET q == x \div 10
        r == x % 10
    IN  IF r < 5 THEN q
        ELSE IF r > 5 THEN q + 1
        ELSE IF q % 2 = 0 THEN q ELSE q + 1


-----------------------------------------------------------------------------
(* The database session: rows added or inserted stay pending until commit *)

EmptyDb ==
    [inquiries |-> <<>>, ai_responses |-> <<>>, human_corrections |-> <<>>,
     feedbacks |-> <<>>, brim_qa |-> <<>>]

\* Session(): a new session on the committed rows, nothing pending
NewSession(d) == [db |-> d, pending |-> <<>>]

\* session.add(obj), and session.execute of an INSERT: pending until commit
session_add(s, table, row) ==
    [s EXCEPT !.pending = Append(@, [table |-> table, row |-> row])]

\* the flush of a commit: every pending row is written with its table's next id
RECURSIVE Flush(_, _)
Flush(d, pending) ==
    IF pending = <<>> THEN d
    ELSE LET p == Head(pending)
         IN  Flush([d EXCEPT ![p.table] = Append(@, [p.row EXCEPT !.id = Len(d[p.table]) + 1])],
                   Tail(pending))

\* session.commit(): when the database refuses it, it raises and nothing is written
session_commit(s, ok) ==
    IF ok THEN [db |-> Flush(s.db, s.pending), pending |-> <<>>] ELSE s

\* session.rollback()
session_rollback(s) == [s EXCEPT !.pending = <<>>]

\* session.close(): what was not committed is lost
session_close(s) == s.db

-----------------------------------------------------------------------------
(* RAG search over brim_qa *)

\* ORDER BY distance DESC LIMIT :top_k: the farthest rows first
RECURSIVE OrderByDescLimit(_, _, _)
OrderByDescLimit(distance, S, top_k) ==
    IF top_k = 0 \/ S = {} THEN {<<>>}
    ELSE LET farthest == {i \in S : \A j \in S : distance[i] >= distance[j]}
         IN  UNION {{<<i>> \o t : t \in OrderByDescLimit(distance, S \ {i}, top_k - 1)} : i \in farthest}

\* ORDER BY distance LIMIT :top_k over the rows S, distance[i] being row i's
\* distance: every order the database may return; rows at the same distance
\* come in any order.
RECURSIVE OrderByLimit(_, _, _)
OrderByLimit(distance, S, top_k) ==
    IF top_k = 0 \/ S = {} THEN {<<>>}
    ELSE LET nearest == {i \in S : \A j \in S : distance[i] <= distance[j]}
         IN  UNION {{<<i>> \o t : t \in OrderByLimit(distance, S \ {i}, top_k - 1)} : i \in nearest}

\* one row of the SELECT (similarity is 1 - distance) as the dict
\* search_similar_qa builds from it
QaDict(row, emb) ==
    [id |-> row.id, question |-> row.question, answer |-> row.answer,
     category |-> row.category, platform |-> row.platform,
     similarity |-> Round4(Unit - CosineDistance(row.embedding, emb))]

\* search_similar_qa without the check of line 141: the search is made even
\* when get_embedding returned None
search_similar_qa_unchecked(qa, query_text, top_k, outcome) ==
    LET embedding == text_embedding(query_text)
        distance == [i \in DOMAIN qa |-> CosineDistance(qa[i].embedding, embedding)]
    IN  {[n \in 1..Len(r) |-> QaDict(qa[r[n]], embedding)] :
            r \in OrderByLimit(distance, DOMAIN qa, top_k)}

\* search_similar_qa with LIMIT :top_k + 1: one row too many
search_similar_qa_extra_row(qa, query_text, top_k, outcome) ==
    LET embedding == get_embedding(query_text, outcome # "embedding_error")
    IN  IF embedding = None THEN {<<>>}
        ELSE IF outcome = "query_error" THEN {<<>>}
        ELSE LET distance == [i \in DOMAIN qa |-> CosineDistance(qa[i].embedding, embedding)]
             IN  {[n \in 1..Len(r) |-> QaDict(qa[r[n]], embedding)] :
                     r \in OrderByLimit(distance, DOMAIN qa, top_k + 1)}

\* search_similar_qa: the set of lists it may return.  outcome is "ok",
\* "embedding_error" (get_embedding returned None) or "query_error" (the
\* SELECT raised).
search_similar_qa(qa, query_text, top_k, outcome) ==
    LET embedding == get_embedding(query_text, outcome # "embedding_error")
    IN  IF embedding = None THEN {<<>>}
        ELSE IF outcome = "query_error" THEN {<<>>}
        ELSE LET distance == [i \in DOMAIN qa |-> CosineDistance(qa[i].embedding, embedding)]
             IN  {[n \in 1..Len(r) |-> QaDict(qa[r[n]], embedding)] :
                     r \in OrderByLimit(distance, DOMAIN qa, top_k)}

TOP_K == 5

-----------------------------------------------------------------------------
(* Learning: a corrected answer is embedded and added to brim_qa *)

\* the default of add_correction_to_qa's platform parameter (the source's
\* literal is the Japanese for "correction data")
CORRECTION_PLATFORM == "correction data"

\* add_correction_to_qa with the two columns exchanged in the INSERT
add_correction_to_qa_swapped(s, question, corrected_answer, category, platform, emb_ok, sql_ok) ==
    LET embedding == get_embedding(question, emb_ok)
        s1 == session_add(s, "brim_qa",
                  [id |-> 0, question |-> corrected_answer, answer |-> question,
                   platform |-> platform, category |-> category, embedding |-> embedding])
    IN  IF embedding = None THEN [s |-> s, result |-> FALSE]
        ELSE IF sql_ok THEN [s |-> session_commit(s1, TRUE), result |-> TRUE]
        ELSE [s |-> session_rollback(s1), result |-> FALSE]

\* add_correction_to_qa returning True after the except branch as well
add_correction_to_qa_always_true(s, question, corrected_answer, category, platform, emb_ok, sql_ok) ==
    LET embedding == get_embedding(question, emb_ok)
        s1 == session_add(s, "brim_qa",
                  [id |-> 0, question |-> question, answer |-> corrected_answer,
                   platform |-> platform, category |-> category, embedding |-> embedding])
    IN  IF embedding = None THEN [s |-> s, result |-> FALSE]
        ELSE IF sql_ok THEN [s |-> session_commit(s1, TRUE), result |-> TRUE]
        ELSE [s |-> session_rollback(s1), result |-> TRUE]

\* add_correction_to_qa replacing the rows that hold the same question
\* (DELETE, then INSERT) where the source only inserts
add_correction_to_qa_replacing(s, question, corrected_answer, category, platform, emb_ok, sql_ok) ==
    LET embedding == get_embedding(question, emb_ok)
        Other(row) == row.question # question
        s1 == session_add([s EXCEPT !.db.brim_qa = SelectSeq(@, Other)], "brim_qa",
                  [id |-> 0, question |-> question, answer |-> corrected_answer,
                   platform |-> platform, category |-> category, embedding |-> embedding])
    IN  IF embedding = None THEN [s |-> s, result |-> FALSE]
        ELSE IF sql_ok THEN [s |-> session_commit(s1, TRUE), result |-> TRUE]
        ELSE [s |-> session_rollback(s), result |-> FALSE]

\* add_correction_to_qa: the session after it and the value it returns.
\* sql_ok is FALSE when the INSERT or its commit raises.
add_correction_to_qa(s, question, corrected_answer, category, platform, emb_ok, sql_ok) ==
    LET embedding == get_embedding(question, emb_ok)
        s1 == session_add(s, "brim_qa",
                  [id |-> 0, question |-> question, answer |-> corrected_answer,
                   platform |-> platform, category |-> category, embedding |-> embedding])
    IN  IF embedding = None THEN [s |-> s, result |-> FALSE]
        ELSE IF sql_ok THEN [s |-> session_commit(s1, TRUE), result |-> TRUE]
        ELSE [s |-> session_rollback(s1), result |-> FALSE]

-----------------------------------------------------------------------------
(* Ledger writes: each adds one row and commits; a refused commit raises *)

\* save_inquiry reading inquiry.id before the commit has assigned it
save_inquiry_id_before_commit(s, inquiry_text, category, channel, created_by, ok) ==
    LET s1 == session_add(s, "inquiries",
                  [id |-> 0, inquiry_text |-> inquiry_text, category |-> category,
                   inquiry_channel |-> channel, created_by |-> created_by])
        s2 == session_commit(s1, ok)
    IN  [s |-> s2, raised |-> ~ok, id |-> 0]

save_inquiry(s, inquiry_text, category, channel, created_by, ok) ==
    LET s1 == session_add(s, "inquiries",
                  [id |-> 0, inquiry_text |-> inquiry_text, category |-> category,
                   inquiry_channel |-> channel, created_by |-> created_by])
        s2 == session_commit(s1, ok)
    IN  [s |-> s2, raised |-> ~ok, id |-> IF ok THEN Len(s2.db.inquiries) ELSE 0]

\* prompt_version takes the column default
PROMPT_VERSION == "v5_rag"

save_ai_response(s, inquiry_id, response_text, ok) ==
    LET s1 == session_add(s, "ai_responses",
                  [id |-> 0, inquiry_id |-> inquiry_id, generated_response |-> response_text,
                   prompt_version |-> PROMPT_VERSION])
        s2 == session_commit(s1, ok)
    IN  [s |-> s2, raised |-> ~ok, id |-> IF ok THEN Len(s2.db.ai_responses) ELSE 0]

\* save_correction without its commit: the row stays pending in the session
save_correction_uncommitted(s, ai_response_id, corrected_text, notes, corrected_by, ok) ==
    LET s1 == session_add(s, "human_corrections",
                  [id |-> 0, ai_response_id |-> ai_response_id, corrected_response |-> corrected_text,
                   correction_notes |-> notes, corrected_by |-> corrected_by])
    IN  [s |-> s1, raised |-> FALSE]

\* save_correction catching the refused commit: it rolls back and returns
save_correction_failure_caught(s, ai_response_id, corrected_text, notes, corrected_by, ok) ==
    LET s1 == session_add(s, "human_corrections",
                  [id |-> 0, ai_response_id |-> ai_response_id, corrected_response |-> corrected_text,
                   correction_notes |-> notes, corrected_by |-> corrected_by])
    IN  IF ok THEN [s |-> session_commit(s1, TRUE), raised |-> FALSE]
        ELSE [s |-> session_rollback(s1), raised |-> FALSE]

save_correction(s, ai_response_id, corrected_text, notes, corrected_by, ok) ==
    LET s1 == session_add(s, "human_corrections",
                  [id |-> 0, ai_response_id |-> ai_response_id, corrected_response |-> corrected_text,
                   correction_notes |-> notes, corrected_by |-> corrected_by])
        s2 == session_commit(s1, ok)
    IN  [s |-> s2, raised |-> ~ok]

save_feedback(s, ai_response_id, rating, ok) ==
    LET s1 == session_add(s, "feedbacks",
                  [id |-> 0, ai_response_id |-> ai_response_id, rating |-> rating])
        s2 == session_commit(s1, ok)
    IN  [s |-> s2, raised |-> ~ok]

-----------------------------------------------------------------------------
(* The product catalog *)

\* The katakana keywords of the source, one ASCII stand-in per kana
\* (digits and signs: like kana, upper() and lower() leave them alone).
KW_PANERU == "012"
KW_KURIPPU == "3456"
KW_HIITOMATTO == "789!59"
KW_SHEEDO == "#$8%"
KW_SOKETTO == "&*59"
KW_TAIMAA == "+=!8"

keywords ==
    <<"COSMO", "SOL", "LUNA", "FLORA", "PANEL", KW_PANERU, KW_KURIPPU,
      KW_HIITOMATTO, "HMT", KW_SHEEDO, KW_SOKETTO, KW_TAIMAA,
      "cosmo", "sol", "luna", "flora", "panel">>

\* BRIMProductDatabase.search_products
search_products(prods, query) ==
    LET query_lower == lower(query)
        Hit(p) == \/ Contains(lower(p.product_name), query_lower)
                  \/ Contains(lower(p.category), query_lower)
    IN  SelectSeq(prods, Hit)

\* lines 254-257: the products of every keyword found in the query, keyword by keyword
RECURSIVE KeywordProducts(_, _, _)
KeywordProducts(prods, query_upper, kws) ==
    IF kws = <<>> THEN <<>>
    ELSE (IF Contains(query_upper, upper(Head(kws))) THEN search_products(prods, Head(kws)) ELSE <<>>)
         \o KeywordProducts(prods, query_upper, Tail(kws))

\* lines 261-266: the products whose name contains a word of the query of length >= 2
WordProducts(prods, query) ==
    LET words == split(lower(query))
        Hit(p) == \E n \in DOMAIN words :
                     Len(words[n]) >= 2 /\ Contains(lower(p.product_name), words[n])
    IN  SelectSeq(prods, Hit)

\* lines 272-278 left out: every found product is kept
NotUnique(found, seen) == found

\* lines 272-278: the first occurrence of every sku, in order
RECURSIVE Unique(_, _)
Unique(found, seen) ==
    IF found = <<>> THEN <<>>
    ELSE IF Head(found).sku \in seen THEN Unique(Tail(found), seen)
    ELSE <<Head(found)>> \o Unique(Tail(found), seen \cup {Head(found).sku})

MAX_CONTEXT_PRODUCTS == 5

\* unique[:5]
FirstN(seq, n) == SubSeq(seq, 1, IF Len(seq) < n THEN Len(seq) ELSE n)

\* BRIMProductDatabase.search_relevant_products: the products the context
\* text is written from, one block each, in order (<<>> for the empty text)
search_relevant_products(prods, query) ==
    LET by_keyword == KeywordProducts(prods, upper(query), keywords)
        found_products == IF by_keyword # <<>> THEN by_keyword ELSE WordProducts(prods, query)
    IN  IF found_products = <<>> THEN <<>>
        ELSE FirstN(Unique(found_products, {}), MAX_CONTEXT_PRODUCTS)

-----------------------------------------------------------------------------
(* Draft generation *)

\* the head of the reply returned when the API call raises (the source's
\* literal is a cross mark and the Japanese for "an error occurred: ")
ERROR_MARKER == "[x] an error occurred: "

\* generate_response_with_claude returning str(e) alone
generate_response_without_marker(inquiry_text, similar_qa, product_context, gen_ok, text, err) ==
    IF gen_ok THEN text ELSE err

\* generate_response_with_claude: the model's text, or the marker and str(e).
\* The prompt built from similar_qa and product_context goes to the service
\* and decides nothing else.
generate_response_with_claude(inquiry_text, similar_qa, product_context, gen_ok, text, err) ==
    IF gen_ok THEN text ELSE ERROR_MARKER \o err

-----------------------------------------------------------------------------
(* Widget values and external outcomes the model draws from *)

\* the first and the last entry of CATEGORIES (Japanese in the source)
CATEGORIES == <<"product spec", "other">>

\* the first entry of INQUIRY_CHANNELS
INQUIRY_CHANNELS == <<"erume">>

\* the default of the agent-name text input
USER_NAME == "tantousha"

\* the notes main() passes to save_correction (Japanese for "manual correction")
CORRECTION_NOTES == "manual correction"

CategoryChoices == {CATEGORIES[1]}
InquiryTexts == {"", "PANEL dim", "sol"}
ReplyTexts == {"reply"}
ErrorTexts == {"timeout"}
EditTexts == {"fixed reply"}
SearchOutcomes == {"ok", "embedding_error", "query_error"}

\* rows of brim_qa loaded before the application runs
SeedRow(n, question) ==
    [id |-> n, question |-> question, answer |-> "seed answer", platform |-> "amazon",
     category |-> "other", embedding |-> text_embedding(question)]

SeedCorpora == {<<>>, <<SeedRow(1, "sol")>>}

Product(sku, name, category) == [sku |-> sku, product_name |-> name, category |-> category]

MainCatalog == <<Product("P1", "PANEL X", "panel light"), Product("S1", "SOL 24W", "bulb")>>

NoSessionState == [k \in {} |-> ""]

NoReq ==
    [page |-> "none", api_key |-> FALSE, button |-> "none", inquiry |-> "", category |-> "",
     edited |-> "", search |-> "ok", inq_ok |-> TRUE, gen_ok |-> TRUE, gen_text |-> "",
     resp_ok |-> TRUE, fb_ok |-> TRUE, corr_ok |-> TRUE, emb_ok |-> TRUE, sql_ok |-> TRUE]

InquiryReq == [NoReq EXCEPT !.page = "inquiry", !.api_key = TRUE]

Ui(msg) == [msg |-> msg, data |-> <<>>]

NoRet == [fn |-> "none"]

-----------------------------------------------------------------------------
(* main(): one page render per action *)

\* the rows of the four ledger tables; the model stops writing at MaxLedgerRows
LedgerRows(d) ==
    Len(d.inquiries) + Len(d.ai_responses) + Len(d.human_corrections) + Len(d.feedbacks)

\* lines 513-515: the inquiry page without an API key stops the script
RenderNoKey ==
    /\ req' = [NoReq EXCEPT !.page = "inquiry"]
    /\ ui' = Ui("api key needed")
    /\ session' = "open"
    /\ UNCHANGED <<db, products, session_state, ret>>

\* the inquiry page with no button clicked
RenderInquiryPage ==
    /\ req' = InquiryReq
    /\ ui' = Ui("none")
    /\ session' = "closed"
    /\ UNCHANGED <<db, products, session_state, ret>>

\* lines 534-554: the generate button
Generate(inquiry, category, search, inq_ok, gen_ok, gen_text, gen_err, resp_ok) ==
    /\ LedgerRows(db) + 2 <= MaxLedgerRows
    /\ req' = [InquiryReq EXCEPT !.button = "generate", !.inquiry = inquiry,
                    !.category = category, !.search = search, !.inq_ok = inq_ok,
                    !.gen_ok = gen_ok, !.gen_text = gen_text, !.resp_ok = resp_ok]
    /\ IF inquiry = ""
       THEN /\ ui' = Ui("none")
            /\ session' = "closed"
            /\ UNCHANGED <<db, session_state>>
       ELSE \E similar_qa \in search_similar_qa(db.brim_qa, inquiry, TOP_K, search) :
            LET product_context == search_relevant_products(products, inquiry)
                a == save_inquiry(NewSession(db), inquiry, category, INQUIRY_CHANNELS[1],
                                  USER_NAME, inq_ok)
                response == generate_response_with_claude(inquiry, similar_qa, product_context,
                                                          gen_ok, gen_text, gen_err)
                b == save_ai_response(a.s, a.id, response, resp_ok)
            IN  IF a.raised
                THEN /\ db' = a.s.db
                     /\ ui' = Ui("exception")
                     /\ session' = "open"
                     /\ UNCHANGED session_state
                ELSE IF b.raised
                THEN /\ db' = b.s.db
                     /\ ui' = Ui("exception")
                     /\ session' = "open"
                     /\ UNCHANGED session_state
                ELSE /\ db' = session_close(b.s)
                     /\ session_state' =
                            [current_inquiry_id |-> a.id, current_response_id |-> b.id,
                             current_response |-> response, current_inquiry_text |-> inquiry,
                             current_category |-> category, similar_qa |-> similar_qa]
                     /\ ui' = Ui("none")
                     /\ session' = "closed"
    /\ UNCHANGED <<products, ret>>

\* lines 581-589: the GOOD and BAD buttons
Rate(rating, fb_ok) ==
    /\ "current_response" \in DOMAIN session_state
    /\ LedgerRows(db) + 1 <= MaxLedgerRows
    /\ req' = [InquiryReq EXCEPT !.button = rating, !.fb_ok = fb_ok]
    /\ LET f == save_feedback(NewSession(db), session_state.current_response_id, rating, fb_ok)
       IN  IF f.raised
           THEN /\ db' = f.s.db
                /\ ui' = Ui("exception")
                /\ session' = "open"
           ELSE /\ db' = session_close(f.s)
                /\ ui' = Ui(rating \o " saved")
                /\ session' = "closed"
    /\ UNCHANGED <<products, session_state, ret>>

\* the comparison of line 593 left out: every click counts as an edit
EditedAlways(edited_response, current_response) == TRUE

\* line 593: has the agent changed the text of the draft?
Edited(edited_response, current_response) == edited_response # current_response

\* lines 591-613: the save-and-learn button
SaveCorrection(edited_response, corr_ok, emb_ok, sql_ok) ==
    /\ "current_response" \in DOMAIN session_state
    /\ LedgerRows(db) + 1 <= MaxLedgerRows
    /\ req' = [InquiryReq EXCEPT !.button = "save", !.edited = edited_response,
                    !.corr_ok = corr_ok, !.emb_ok = emb_ok, !.sql_ok = sql_ok]
    /\ IF Edited(edited_response, session_state.current_response)
       THEN LET c == save_correction(NewSession(db), session_state.current_response_id,
                                     edited_response, CORRECTION_NOTES, USER_NAME, corr_ok)
                l == add_correction_to_qa(c.s, session_state.current_inquiry_text,
                                          edited_response, session_state.current_category,
                                          CORRECTION_PLATFORM, emb_ok, sql_ok)
            IN  IF c.raised
                THEN /\ db' = c.s.db
                     /\ ui' = Ui("exception")
                     /\ session' = "open"
                ELSE /\ db' = session_close(l.s)
                     /\ ui' = Ui(IF l.result THEN "learned" ELSE "saved, not learned")
                     /\ session' = "closed"
       ELSE /\ ui' = Ui("not changed")
            /\ session' = "closed"
            /\ UNCHANGED db
    /\ UNCHANGED <<products, session_state, ret>>

\* get_stats over all periods
get_stats(d) ==
    LET Count(seq, Test(_)) == Cardinality({n \in DOMAIN seq : Test(seq[n])})
        IsGood(f) == f.rating = "good"
        IsBad(f) == f.rating = "bad"
        IsLearned(q) == q.platform = CORRECTION_PLATFORM
    IN  [total |-> Len(d.inquiries), good |-> Count(d.feedbacks, IsGood),
         bad |-> Count(d.feedbacks, IsBad), corrections |-> Len(d.human_corrections),
         qa_total |-> Len(d.brim_qa), learned |-> Count(d.brim_qa, IsLearned)]

\* lines 618-679: the dashboard page
RenderDashboard ==
    /\ req' = [NoReq EXCEPT !.page = "dashboard"]
    /\ ui' = [msg |-> "dashboard", data |-> get_stats(db)]
    /\ session' = "closed"
    /\ UNCHANGED <<db, products, session_state, ret>>

\* get_correction_history: the latest corrections first, each with its draft and inquiry
get_correction_history(d, limit) ==
    LET n == Len(d.human_corrections)
        m == IF n < limit THEN n ELSE limit
    IN  [k \in 1..m |->
            LET c == d.human_corrections[n + 1 - k]
                r == d.ai_responses[c.ai_response_id]
            IN  <<c.id, d.inquiries[r.inquiry_id].inquiry_text, r.generated_response,
                  c.corrected_response, c.correction_notes, c.corrected_by>>]

HISTORY_LIMIT == 50

\* lines 684-708: the history page
RenderHistory ==
    /\ req' = [NoReq EXCEPT !.page = "history"]
    /\ ui' = [msg |-> "history", data |-> get_correction_history(db, HISTORY_LIMIT)]
    /\ session' = "closed"
    /\ UNCHANGED <<db, products, session_state, ret>>

-----------------------------------------------------------------------------
(* The application *)

Init ==
    /\ db \in {[EmptyDb EXCEPT !.brim_qa = qa] : qa \in SeedCorpora}
    /\ products = MainCatalog
    /\ session_state = NoSessionState
    /\ session = "none"
    /\ req = NoReq
    /\ ui = Ui("none")
    /\ ret = NoRet

\* the text the editor shows before the agent types: the draft itself
CurrentDraft ==
    IF "current_response" \in DOMAIN session_state THEN {session_state.current_response} ELSE {}

Next ==
    \/ RenderNoKey
    \/ RenderInquiryPage
    \/ \E inquiry \in InquiryTexts, category \in CategoryChoices, search \in SearchOutcomes,
          inq_ok \in BOOLEAN, gen_ok \in BOOLEAN, gen_text \in ReplyTexts,
          gen_err \in ErrorTexts, resp_ok \in BOOLEAN :
            \* outcomes of calls that are never made are not drawn twice
            /\ (inquiry = "" => search = "ok" /\ inq_ok)
            /\ (~inq_ok => gen_ok /\ resp_ok)
            /\ Generate(inquiry, category, search, inq_ok, gen_ok, gen_text, gen_err, resp_ok)
    \/ \E rating \in {"good", "bad"}, fb_ok \in BOOLEAN : Rate(rating, fb_ok)
    \/ \E edited_response \in EditTexts \cup ReplyTexts \cup CurrentDraft, corr_ok \in BOOLEAN,
          emb_ok \in BOOLEAN, sql_ok \in BOOLEAN :
            /\ (~corr_ok => emb_ok /\ sql_ok)
            /\ SaveCorrection(edited_response, corr_ok, emb_ok, sql_ok)
    \/ RenderDashboard
    \/ RenderHistory

Spec == Init /\ [][Next]_vars

-----------------------------------------------------------------------------
(* search_similar_qa and add_correction_to_qa called on any corpus *)

RetrieveTexts == {"sol", "PANEL dim"}

\* a row as add_correction_to_qa writes it
LearnedRow(n, question) ==
    [id |-> n, question |-> question, answer |-> "fixed reply", platform |-> CORRECTION_PLATFORM,
     category |-> CATEGORIES[1], embedding |-> text_embedding(question)]

Corpora ==
    UNION {{[n \in 1..len |-> LearnedRow(n, f[n])] : f \in [1..len -> RetrieveTexts]} :
             len \in 0..MaxCorpus}

CallLearn(question, corrected_answer, emb_ok, sql_ok) ==
    /\ Len(db.brim_qa) <= MaxCorpus
    /\ LET l == add_correction_to_qa(NewSession(db), question, corrected_answer,
                                     CATEGORIES[1], CORRECTION_PLATFORM, emb_ok, sql_ok)
       IN  /\ db' = session_close(l.s)
           /\ ret' = [fn |-> "add_correction_to_qa", question |-> question,
                      answer |-> corrected_answer, emb_ok |-> emb_ok, sql_ok |-> sql_ok,
                      value |-> l.result]
    /\ UNCHANGED <<products, session_state, session, req, ui>>

\* A search leaves the corpus as it is, so a second search in a row has the
\* answers of the first: the model searches once after every change.
CallSearch(query_text, top_k, outcome) ==
    /\ ret.fn # "search_similar_qa"
    /\ \E value \in search_similar_qa(db.brim_qa, query_text, top_k, outcome) :
          ret' = [fn |-> "search_similar_qa", query |-> query_text, top_k |-> top_k,
                  outcome |-> outcome, value |-> value, after |-> ret]
    /\ UNCHANGED <<db, products, session_state, session, req, ui>>

InitRetrieve ==
    /\ db \in {[EmptyDb EXCEPT !.brim_qa = qa] : qa \in Corpora}
    /\ products = <<>>
    /\ session_state = NoSessionState
    /\ session = "none"
    /\ req = NoReq
    /\ ui = Ui("none")
    /\ ret = NoRet

NextRetrieve ==
    \/ \E question \in RetrieveTexts, emb_ok \in BOOLEAN, sql_ok \in BOOLEAN :
          /\ (~emb_ok => sql_ok)
          /\ CallLearn(question, "fixed reply", emb_ok, sql_ok)
    \/ \E query_text \in RetrieveTexts, top_k \in {2, TOP_K}, outcome \in SearchOutcomes :
          CallSearch(query_text, top_k, outcome)

SpecRetrieve == InitRetrieve /\ [][NextRetrieve]_vars

-----------------------------------------------------------------------------
(* search_relevant_products called on any catalog *)

Digits == "0123456789"

\* the keys of the catalog file: distinct strings
SkuOf(n) == "SKU-" \o CharAt(Digits, n + 1)

ProductKinds ==
    {[product_name |-> "PANEL X", category |-> "light"],
     [product_name |-> "Grow Y", category |-> "Panel series"],
     [product_name |-> "model S", category |-> "bulb"]}

Catalogs ==
    UNION {{[n \in 1..len |-> Product(SkuOf(n), f[n].product_name, f[n].category)] :
              f \in [1..len -> ProductKinds]} : len \in 0..MaxProducts}

DigestQueries == {"Is PANEL dim?", "the PANEL model", "a model"}

CallDigest(query) ==
    /\ ret' = [fn |-> "search_relevant_products", query |-> query,
               value |-> search_relevant_products(products, query)]
    /\ UNCHANGED <<db, products, session_state, session, req, ui>>

InitDigest ==
    /\ db = EmptyDb
    /\ products \in Catalogs
    /\ session_state = NoSessionState
    /\ session = "none"
    /\ req = NoReq
    /\ ui = Ui("none")
    /\ ret = NoRet

NextDigest == \E query \in DigestQueries : CallDigest(query)

SpecDigest == InitDigest /\ [][NextDigest]_vars

-----------------------------------------------------------------------------
(* Properties *)

LastRow(seq) == seq[Len(seq)]

\* the inquiry a draft was generated for, by the ledger's foreign keys
InquiryOfDraft(d, ai_response_id) == d.inquiries[d.ai_responses[ai_response_id].inquiry_id]

\* this step is a click on the save-and-learn button
SaveStep == req'.button = "save" /\ "current_response" \in DOMAIN session_state

\* ... with a text that differs from the draft, and the Correction was written
CorrectionStep ==
    /\ SaveStep
    /\ req'.edited # session_state.current_response
    /\ req'.corr_ok

\* the corpus gained exactly one row: the corrected text as the answer to the
\* inquiry the corrected draft was generated for
LearnedOneRow ==
    /\ Len(db'.brim_qa) = Len(db.brim_qa) + 1
    /\ SubSeq(db'.brim_qa, 1, Len(db.brim_qa)) = db.brim_qa
    /\ LastRow(db'.brim_qa).answer = req'.edited
    /\ LastRow(db'.brim_qa).question =
          InquiryOfDraft(db', LastRow(db'.human_corrections).ai_response_id).inquiry_text

\* C1, as stated: every Correction whose text differs from its Draft adds
\* exactly one corpus row, with the corrected text as answer and the text of
\* the Draft's inquiry as question.
C1_EveryCorrectionLearned == [][CorrectionStep => LearnedOneRow]_vars

\* C1, amended: a Correction whose text differs from its Draft adds exactly
\* one such corpus row when the learning step succeeds (the question embeds
\* and the insert commits); when the learning step fails the corpus is left
\* as it was.
C1_CorrectionLearnedUnlessLearningFails ==
    [][CorrectionStep =>
          IF req'.emb_ok /\ req'.sql_ok THEN LearnedOneRow ELSE db'.brim_qa = db.brim_qa]_vars

\* C1 witness: after two inquiries with different texts, a correction has been
\* learned as the answer to the second one
C1_Witness ==
    /\ req.button = "save" /\ ui.msg = "learned"
    /\ Len(db.inquiries) = 2
    /\ db.inquiries[1].inquiry_text # db.inquiries[2].inquiry_text
    /\ LastRow(db.human_corrections).ai_response_id = 2
    /\ LastRow(db.brim_qa).question = db.inquiries[2].inquiry_text
    /\ LastRow(db.brim_qa).answer = LastRow(db.human_corrections).corrected_response

\* C2: saving a correction whose text equals the current Draft's text leaves
\* the corpus as it was.
C2_UnchangedEditNotLearned ==
    [][SaveStep /\ req'.edited = session_state.current_response => db'.brim_qa = db.brim_qa]_vars

\* C2 witness: the save button was clicked on an unedited draft, for an inquiry
\* whose learning would have succeeded
C2_Witness ==
    /\ req.button = "save" /\ ui.msg = "not changed"
    /\ req.edited = session_state.current_response
    /\ req.corr_ok /\ req.emb_ok /\ req.sql_ok

\* C4: when a differing correction is saved and the learning step then fails
\* (embedding or insert), the Correction row written first stays in the ledger.
C4_CorrectionSurvivesFailedLearning ==
    [][CorrectionStep /\ ~(req'.emb_ok /\ req'.sql_ok) =>
          /\ Len(db'.human_corrections) = Len(db.human_corrections) + 1
          /\ SubSeq(db'.human_corrections, 1, Len(db.human_corrections)) = db.human_corrections
          /\ LastRow(db'.human_corrections).corrected_response = req'.edited
          /\ LastRow(db'.human_corrections).ai_response_id = session_state.current_response_id
          /\ db'.brim_qa = db.brim_qa]_vars

\* C4 witness: the insert into brim_qa was rolled back and the Correction is in the ledger
C4_Witness ==
    /\ req.button = "save" /\ ui.msg = "saved, not learned"
    /\ req.emb_ok /\ ~req.sql_ok
    /\ LastRow(db.human_corrections).corrected_response = req.edited

\* this step is a click on the generate button with an inquiry typed in
GenerateStep == req'.button = "generate" /\ req'.inquiry # ""

\* the Inquiry was saved
InquirySaved ==
    /\ Len(db'.inquiries) = Len(db.inquiries) + 1
    /\ LastRow(db'.inquiries).inquiry_text = req'.inquiry

\* a Draft was saved for the Inquiry saved in this step
DraftSaved ==
    /\ InquirySaved
    /\ Len(db'.ai_responses) = Len(db.ai_responses) + 1
    /\ LastRow(db'.ai_responses).inquiry_id = LastRow(db'.inquiries).id

RowsWithId(table, id) == {n \in DOMAIN table : table[n].id = id}

\* C10: every Draft references exactly one existing Inquiry, and every
\* Correction and every Rating references exactly one existing Draft.
C10_ReferentialIntegrity ==
    /\ \A n \in DOMAIN db.ai_responses :
          Cardinality(RowsWithId(db.inquiries, db.ai_responses[n].inquiry_id)) = 1
    /\ \A n \in DOMAIN db.human_corrections :
          Cardinality(RowsWithId(db.ai_responses, db.human_corrections[n].ai_response_id)) = 1
    /\ \A n \in DOMAIN db.feedbacks :
          Cardinality(RowsWithId(db.ai_responses, db.feedbacks[n].ai_response_id)) = 1

\* C10 witness: an Inquiry without a Draft, a later Inquiry with a Draft, and a
\* Correction and a Rating of that Draft
C10_Witness ==
    /\ Len(db.inquiries) = 2 /\ Len(db.ai_responses) = 1
    /\ db.ai_responses[1].inquiry_id = 2
    /\ Len(db.human_corrections) = 1 /\ Len(db.feedbacks) = 1

\* this step is a call of add_correction_to_qa
LearnStep == ret'.fn = "add_correction_to_qa"

\* C3: add_correction_to_qa returns True exactly when it has appended one
\* row to brim_qa; whenever it returns False (the embedding failed, or the
\* insert or its commit failed and was rolled back) brim_qa is as it was.
C3_LearnReportsItsEffect ==
    [][LearnStep =>
          /\ ret'.value <=> Len(db'.brim_qa) = Len(db.brim_qa) + 1
          /\ ret'.value =>
                /\ SubSeq(db'.brim_qa, 1, Len(db.brim_qa)) = db.brim_qa
                /\ LastRow(db'.brim_qa).question = ret'.question
                /\ LastRow(db'.brim_qa).answer = ret'.answer
          /\ ~ret'.value => db'.brim_qa = db.brim_qa]_vars

\* C3 witness: the insert failed on a corpus that has rows, and False was returned
C3_Witness ==
    /\ ret.fn = "add_correction_to_qa"
    /\ ret.emb_ok /\ ~ret.sql_ok /\ ~ret.value
    /\ Len(db.brim_qa) > 0

\* the latest call was a search whose embedding and query succeeded
Searched == ret.fn = "search_similar_qa" /\ ret.outcome = "ok"

\* C7: when the embedding succeeds, search_similar_qa returns at most top_k
\* entries, in order of non-increasing (rounded) similarity.
C7_AtMostKBySimilarity ==
    Searched =>
        /\ Len(ret.value) <= ret.top_k
        /\ \A n \in DOMAIN ret.value : \A m \in DOMAIN ret.value :
              n < m => ret.value[n].similarity >= ret.value[m].similarity

\* C7 witness: the corpus holds more than top_k rows, top_k of them were
\* returned, and the first is more similar than the last
C7_Witness ==
    /\ Searched
    /\ ret.top_k = TOP_K
    /\ Len(db.brim_qa) > TOP_K
    /\ Len(ret.value) = TOP_K
    /\ ret.value[1].similarity > ret.value[TOP_K].similarity

\* the latest call was a search with the default top_k for the question of
\* the row that the call before it appended
SearchedAfterLearning ==
    /\ Searched
    /\ ret.top_k = TOP_K
    /\ ret.after.fn = "add_correction_to_qa"
    /\ ret.after.value
    /\ ret.query = ret.after.question

\* the row appended last is among the results
NewRowReturned == \E n \in DOMAIN ret.value : ret.value[n].id = LastRow(db.brim_qa).id

\* C8, as stated: after an entry is appended for question T, a search for T
\* with the default top_k returns the new entry, whatever the corpus held.
C8_NewRowAlwaysReturned == SearchedAfterLearning => NewRowReturned

\* the earlier rows that are as near to the query as the row appended last
EarlierRowsAsNear ==
    LET emb == text_embedding(ret.query)
        new == LastRow(db.brim_qa)
    IN  {n \in 1..(Len(db.brim_qa) - 1) :
            CosineDistance(db.brim_qa[n].embedding, emb) <= CosineDistance(new.embedding, emb)}

\* C8, amended: after an entry is appended for question T, a search for T
\* with the default top_k returns the new entry, provided fewer than top_k
\* earlier rows have an embedding as near to T's as the new row's (every
\* earlier row with the same question text is one of them).
C8_NewRowReturnedUnlessCrowdedOut ==
    SearchedAfterLearning /\ Cardinality(EarlierRowsAsNear) < TOP_K => NewRowReturned

\* C8 witness: the new row is returned from a corpus of more than top_k rows,
\* some of them earlier rows with the same question
C8_Witness ==
    /\ SearchedAfterLearning
    /\ Len(db.brim_qa) > TOP_K
    /\ EarlierRowsAsNear # {}
    /\ Cardinality(EarlierRowsAsNear) < TOP_K
    /\ NewRowReturned

\* the latest call built the product digest for an inquiry that contains
\* PANEL and no other keyword of the list
PanelDigest ==
    /\ ret.fn = "search_relevant_products"
    /\ Contains(upper(ret.query), "PANEL")
    /\ \A n \in DOMAIN keywords :
          Contains(upper(ret.query), upper(keywords[n])) => upper(keywords[n]) = "PANEL"

\* the products whose name or category contains "panel", in catalog order
IsPanelProduct(p) ==
    Contains(lower(p.product_name), "panel") \/ Contains(lower(p.category), "panel")

PanelProducts == SelectSeq(products, IsPanelProduct)

\* C9: for an inquiry with the token PANEL and no other keyword, the digest
\* lists the products whose name or category contains "panel" (all of them,
\* or the first five when more than five match), no SKU twice, and never
\* more than five products.
C9_PanelDigest ==
    PanelDigest =>
        /\ \A n \in DOMAIN ret.value : \A m \in DOMAIN ret.value :
              n # m => ret.value[n].sku # ret.value[m].sku
        /\ Len(ret.value) <= 5
        /\ PanelProducts # <<>> => ret.value = FirstN(PanelProducts, 5)

\* C9 witness: six products match, through both PANEL and panel of the
\* keyword list, and five are listed
C9_Witness ==
    /\ PanelDigest
    /\ Len(PanelProducts) = 6
    /\ Len(ret.value) = 5

\* the latest call built the product digest for an inquiry in which a
\* keyword of the list is present
KeywordDigest ==
    /\ ret.fn = "search_relevant_products"
    /\ \E n \in DOMAIN keywords : Contains(upper(ret.query), upper(keywords[n]))

\* the products the keywords present in the inquiry find, keyword by keyword
FoundByKeyword == KeywordProducts(products, upper(ret.query), keywords)

\* C11: when a keyword of the list is present in the inquiry the per-word
\* fallback is not used: the digest is made of the products the present
\* keywords find and of nothing else.
C11_FallbackOnlyWithoutKeyword ==
    KeywordDigest =>
        ret.value = FirstN(Unique(FoundByKeyword, {}), MAX_CONTEXT_PRODUCTS)

\* C11 witness: a keyword is present, it finds no product, and the digest
\* lists a product all the same, found by a word of the inquiry
C11_Witness ==
    /\ KeywordDigest
    /\ FoundByKeyword = <<>>
    /\ ret.value # <<>>
    /\ ret.value = FirstN(Unique(WordProducts(products, ret.query), {}), MAX_CONTEXT_PRODUCTS)

\* C12: the session a page render opens is closed when the render ends, on
\* every path through main, the stop on a missing API key included: between
\* two renders no session is left open.
C12_SessionClosedAfterEveryRender == session # "open"

\* C12 witness: the inquiry page was asked for without an API key, the script
\* stopped at the error message, and the session it opened is still open
C12_Witness ==
    /\ req.page = "inquiry"
    /\ ~req.api_key
    /\ ui.msg = "api key needed"
    /\ session = "open"

\* C13: the corpus is append-only: no step of the application (generate,
\* rate, correct, or a page that only reads) removes a row of brim_qa or
\* changes the question or the answer of a row that is there.
C13_CorpusAppendOnly ==
    [][/\ Len(db'.brim_qa) >= Len(db.brim_qa)
       /\ \A i \in DOMAIN db.brim_qa :
             /\ db'.brim_qa[i].question = db.brim_qa[i].question
             /\ db'.brim_qa[i].answer = db.brim_qa[i].answer]_vars

\* C13 witness: a correction of an inquiry whose question the corpus already
\* held was learned next to the earlier row, and a later generate step has
\* searched the grown corpus
C13_Witness ==
    /\ Len(db.brim_qa) = 2
    /\ db.brim_qa[1].platform # CORRECTION_PLATFORM
    /\ db.brim_qa[2].platform = CORRECTION_PLATFORM
    /\ db.brim_qa[2].question = db.brim_qa[1].question
    /\ db.brim_qa[2].answer # db.brim_qa[1].answer
    /\ req.button = "generate"
    /\ req.inquiry # ""
    /\ Len(db.inquiries) = 2

\* the rows of the corpus learned through the application, and for a text
\* the learned rows that give it as answer and the Corrections that hold it
LearnedRows == {i \in DOMAIN db.brim_qa : db.brim_qa[i].platform = CORRECTION_PLATFORM}

LearnedWith(t) == {i \in LearnedRows : db.brim_qa[i].answer = t}

CorrectionsWith(t) ==
    {j \in DOMAIN db.human_corrections : db.human_corrections[j].corrected_response = t}

\* every learned row has a Correction of its own with the same text
LearnedRowsHaveCorrections ==
    /\ Cardinality(LearnedRows) <= Len(db.human_corrections)
    /\ \A i \in LearnedRows :
          Cardinality(LearnedWith(db.brim_qa[i].answer))
              <= Cardinality(CorrectionsWith(db.brim_qa[i].answer))

\* C14: in every reachable state each corpus row learned through the
\* application has a persisted Correction with the same corrected text, so
\* the learned rows are at most as many as the Corrections; and a step in
\* which the Correction write fails appends nothing to the corpus.
C14_LearnedRowsFollowCorrections ==
    /\ []LearnedRowsHaveCorrections
    /\ [][SaveStep /\ ~req'.corr_ok => db'.brim_qa = db.brim_qa]_vars

\* C14 witness: one correction has been written and learned, and a second
\* edit, whose Correction write was refused, has left the corpus with that
\* one learned row
C14_Witness ==
    /\ req.button = "save" /\ ui.msg = "exception"
    /\ ~req.corr_ok
    /\ req.edited # session_state.current_response
    /\ Cardinality(LearnedRows) = 1
    /\ Len(db.human_corrections) = 1
    /\ \A i \in LearnedRows : db.brim_qa[i].answer = db.human_corrections[1].corrected_response

====
